---- MODULE Spec2Model ----
(***************************************************************************)
(* Model of tools/tiling_pyhist.py: main -> pull_podman_image ->           *)
(* process_files (single image or ZIP bundle, one PyHIST Podman invocation *)
(* per accepted image, tile directory lookup) -> create_output_zip, with   *)
(* the temporary directories, the working directory and the log.           *)
(* Paths and file names are sequences of one-character strings so that     *)
(* os.path.splitext, os.path.basename, os.path.join, str.lower and         *)
(* str.endswith are computed, not assumed.                                 *)
(***************************************************************************)
EXTENDS Integers, Sequences, FiniteSets, TLC

\* ---------------------------------------------------------------- bounds
\* Largest number of entries in the namelist of an input bundle.
MaxEntries == 3

\* ------------------------------------------------------- string helpers
SEP == "/"

EXTSEP == "."

\* Largest index of character c in p, 0 if absent (str.rfind, 1-based).
RFind(p, c) ==
  LET hits == {i \in 1..Len(p) : p[i] = c}
  IN  IF hits = {} THEN 0 ELSE CHOOSE i \in hits : \A j \in hits : j <= i

\* Smallest index of character c in p, 0 if absent (str.find, 1-based).
Find(p, c) ==
  LET hits == {i \in 1..Len(p) : p[i] = c}
  IN  IF hits = {} THEN 0 ELSE CHOOSE i \in hits : \A j \in hits : i <= j

\* str.lower on the alphabet the model uses.
LowerChar(c) ==
  CASE c = "B" -> "b"
    [] c = "G" -> "g"
    [] c = "I" -> "i"
    [] c = "N" -> "n"
    [] c = "P" -> "p"
    [] c = "S" -> "s"
    [] c = "Z" -> "z"
    [] OTHER   -> c

Lower(s) == [i \in 1..Len(s) |-> LowerChar(s[i])]

\* str.endswith
EndsWith(s, suf) ==
  /\ Len(suf) <= Len(s)
  /\ SubSeq(s, Len(s) - Len(suf) + 1, Len(s)) = suf

\* str.startswith
StartsWith(s, pre) ==
  /\ Len(pre) <= Len(s)
  /\ SubSeq(s, 1, Len(pre)) = pre

\* os.path.basename: everything after the last separator.
Basename(p) == SubSeq(p, RFind(p, SEP) + 1, Len(p))

\* os.path.splitext: <<root, ext>>; the extension starts at the last dot of
\* the last path component, unless that component has only leading dots.
SplitExt(p) ==
  LET sepIndex == RFind(p, SEP)
      dotIndex == RFind(p, EXTSEP)
  IN  IF /\ dotIndex > sepIndex
         /\ \E k \in (sepIndex + 1)..(dotIndex - 1) : p[k] # EXTSEP
      THEN <<SubSeq(p, 1, dotIndex - 1), SubSeq(p, dotIndex, Len(p))>>
      ELSE <<p, <<>>>>

\* os.path.join of two components.
Join(a, b) ==
  IF Len(b) > 0 /\ b[1] = SEP THEN b
  ELSE IF Len(a) = 0 \/ a[Len(a)] = SEP THEN a \o b
  ELSE a \o <<SEP>> \o b

\* Path q lies inside directory d (what shutil.rmtree(d) removes).
Inside(d, q) == q = d \/ StartsWith(q, d \o <<SEP>>)

\* ------------------------------------------------------------ constants
EXT_png == <<".", "p", "n", "g">>

EXT_jpg == <<".", "j", "p", "g">>

EXT_jpeg == <<".", "j", "p", "e", "g">>

EXT_tif == <<".", "t", "i", "f">>

EXT_tiff == <<".", "t", "i", "f", "f">>

EXT_svs == <<".", "s", "v", "s">>

EXT_zip == <<".", "z", "i", "p">>

VALID_EXTENSIONS == {EXT_png, EXT_jpg, EXT_jpeg, EXT_tif, EXT_tiff, EXT_svs}

TILES_SUFFIX == <<"_", "t", "i", "l", "e", "s">>

\* The directory the program is started in.
Cwd0 == <<"/", "w">>

\* tempfile.mkdtemp(prefix="process_")
ProcessDir == <<"/", "p">>

\* tempfile.mkdtemp(prefix="zip_extract_")
ZipExtractDir == <<"/", "z">>

\* ------------------------------------------------------ input universe
Name_s == <<"s">>

In_s_png == Join(Cwd0, Name_s \o EXT_png)

In_S_PNG == Join(Cwd0, <<"S", ".", "P", "N", "G">>)

In_s_txt == Join(Cwd0, <<"s", ".", "t", "x", "t">>)

In_b_zip == Join(Cwd0, <<"b">> \o EXT_zip)

In_B_ZIP == Join(Cwd0, <<"B", ".", "Z", "I", "P">>)

\* Paths main can be started with.
InputPaths == {In_s_png, In_S_PNG, In_s_txt, In_b_zip, In_B_ZIP}

E_a_png == <<"a">> \o EXT_png

E_a_tif == <<"a">> \o EXT_tif

E_B_PNG == <<"B", ".", "P", "N", "G">>

E_n_txt == <<"n", ".", "t", "x", "t">>

E_d_a_png == <<"d", "/", "a">> \o EXT_png

E_c_zip == <<"c">> \o EXT_zip

\* Member names a bundle can hold (ZipFile.namelist()).
EntryNames == {E_a_png, E_a_tif, E_B_PNG, E_n_txt, E_d_a_png, E_c_zip}

\* Namelists of at most MaxEntries distinct members.
NameLists ==
  UNION {{l \in [1..n -> EntryNames] : \A i, j \in 1..n : i # j => l[i] # l[j]}
         : n \in 0..MaxEntries}

T_s_1 == <<"s", "_", "0", "0", "1", ".", "p", "n", "g">>

T_s_2 == <<"s", "_", "0", "0", "2", ".", "p", "n", "g">>

T_k_s_1 == <<"k", "/">> \o T_s_1

T_tX == <<"t", "X", ".", "p", "n", "g">>

T_n_txt == <<"n", ".", "t", "x", "t">>

\* What a successful PyHIST run can leave in <cwd>/<name>/<name>_tiles/:
\* made = FALSE is "directory not created"; files are paths relative to it.
TileOutcomes ==
  { [made |-> FALSE, files |-> {}],
    [made |-> TRUE,  files |-> {}],
    [made |-> TRUE,  files |-> {T_s_1, T_s_2, T_n_txt}],
    [made |-> TRUE,  files |-> {T_s_1, T_k_s_1, T_tX}] }

\* ---------------------------------------------------------------- state
VARIABLES
  input_path,      \* argument --zip_file of main
  zip_names,       \* namelist of the file at input_path when it is a ZIP
  zip_ok,          \* FALSE when zipfile.ZipFile raises BadZipFile on it
  pc,              \* position of the run
  cwd,             \* os.getcwd()
  original_dir,    \* local of process_files
  temp_dir,        \* local temp_dir of process_files / main
  tmpdirs,         \* mkdtemp directories that exist
  file_list,       \* local of process_files (ZIP branch)
  idx,             \* position of the for loop over file_list
  cur,             \* image path handed to run_pyhist_podman
  image_tile_map,  \* image_name -> tile_dir
  fs,              \* tile directories on disk: tile_dir -> relative files
  invocations,     \* podman run commands issued so far
  inflight,        \* podman run commands not yet returned
  archive,         \* the file at output_zip_path
  log,             \* records appended to tile_processing.log
  error            \* exception that left main, "none" if none

vars == <<input_path, zip_names, zip_ok, pc, cwd, original_dir, temp_dir,
          tmpdirs, file_list, idx, cur, image_tile_map, fs, invocations,
          inflight, archive, log, error>>

LogRec(level, event, subject, files) ==
  [level |-> level, event |-> event, subject |-> subject, files |-> files]

\* ext = os.path.splitext(input_path)[1].lower()
InputExt == Lower(SplitExt(input_path)[2])

\* image_name = os.path.splitext(os.path.basename(path))[0]
ImageName(path) == SplitExt(Basename(path))[1]

\* os.path.join(root, image_name, f"{image_name}_tiles")
TileDir(root, image_name) ==
  Join(Join(root, image_name), image_name \o TILES_SUFFIX)

\* os.listdir(tile_dir): the names directly inside the directory.
ListDir(files) ==
  {IF Find(f, SEP) = 0 THEN f ELSE SubSeq(f, 1, Find(f, SEP) - 1) : f \in files}

\* [f for f in os.listdir(tile_dir) if f.endswith('.png')]
TileFiles(files) == {f \in ListDir(files) : EndsWith(f, EXT_png)}

\* shutil.rmtree(d, ignore_errors=True) on the tile directories.
RmTree(d, disk) == [q \in {q \in DOMAIN disk : ~Inside(d, q)} |-> disk[q]]

\* The tiling tool writing outcome o for image_name below current_dir.
ToolWrite(current_dir, image_name, o, disk) ==
  LET td == TileDir(current_dir, image_name)
      old == IF td \in DOMAIN disk THEN disk[td] ELSE {}
  IN  IF o.made
      THEN [q \in DOMAIN disk \cup {td} |->
              IF q = td THEN old \cup o.files ELSE disk[q]]
      ELSE disk

Init ==
  /\ input_path \in InputPaths
  /\ IF InputExt = EXT_zip
     THEN /\ zip_ok \in BOOLEAN
          /\ zip_names \in (IF zip_ok THEN NameLists ELSE {<<>>})
     ELSE /\ zip_ok = TRUE
          /\ zip_names = <<>>
  /\ pc = "pull"
  /\ cwd = Cwd0
  /\ original_dir = Cwd0
  /\ temp_dir = <<>>
  /\ tmpdirs = {}
  /\ file_list = <<>>
  /\ idx = 1
  /\ cur = <<>>
  /\ image_tile_map = [n \in {} |-> <<>>]
  /\ fs = [q \in {} |-> {}]
  /\ invocations = <<>>
  /\ inflight = 0
  /\ archive = [exists |-> FALSE, entries |-> {}]
  /\ log = <<>>
  /\ error = "none"

\* ---------------------------------------------------- process_files
\* Branch without the final else: any other extension is taken for an image.
Branch_NoElse(ext) ==
  IF ext = EXT_zip THEN "zip" ELSE "single"

\* The branch process_files takes on ext.
Branch(ext) ==
  IF ext \in VALID_EXTENSIONS THEN "single"
  ELSE IF ext = EXT_zip THEN "zip"
  ELSE "unsupported"

\* file_list = [os.path.join(temp_dir, f) for f in zip_ref.namelist()]
FileList(dir, names) == [i \in 1..Len(names) |-> Join(dir, names[i])]

\* file_ext not in VALID_EXTENSIONS, with file_ext lower-cased
Skipped(file_path) == Lower(SplitExt(file_path)[2]) \notin VALID_EXTENSIONS

\* The root below which process_files looks for the tiles of an image:
\* os.getcwd() for a single image, temp_dir for a bundle entry.
TileRoot == IF Branch(InputExt) = "single" THEN cwd ELSE temp_dir

\* LocateMap without the "if tile_files" test: an existing directory is enough.
LocateMap_NoPngTest(map, image_name, tile_dir, disk) ==
  IF tile_dir \in DOMAIN disk
  THEN [n \in DOMAIN map \cup {image_name} |->
          IF n = image_name THEN tile_dir ELSE map[n]]
  ELSE map

\* image_tile_map after the tile directory of image_name has been looked up.
LocateMap(map, image_name, tile_dir, disk) ==
  IF tile_dir \in DOMAIN disk /\ TileFiles(disk[tile_dir]) # {}
  THEN [n \in DOMAIN map \cup {image_name} |->
          IF n = image_name THEN tile_dir ELSE map[n]]
  ELSE map

\* Log records of the tile directory lookup.
LocateLog(tile_dir, disk) ==
  <<LogRec("INFO", "checking", tile_dir, {})>> \o
  ( IF tile_dir \in DOMAIN disk
    THEN <<LogRec("INFO", "found", tile_dir, TileFiles(disk[tile_dir]))>> \o
         ( IF TileFiles(disk[tile_dir]) # {}
           THEN <<>>
           ELSE <<LogRec("WARNING", "no_png", tile_dir, {})>> )
    ELSE <<LogRec("WARNING", "no_dir", tile_dir, {})>> )

\* FinallyChdir without the restore.
FinallyChdir_NoRestore(orig, now) == now

\* The working directory set by the inner finally of the ZIP branch.
FinallyChdir(orig, now) == orig

\* The outer finally of process_files: rmtree(temp_dir) only for a ZIP.
FinallyTmpDirs(ext, dir, dirs) == IF ext = EXT_zip THEN dirs \ {dir} ELSE dirs

FinallyDisk(ext, dir, disk) == IF ext = EXT_zip THEN RmTree(dir, disk) ELSE disk

\* pull_podman_image succeeds.
PullOk ==
  /\ pc = "pull"
  /\ log' = Append(log, LogRec("INFO", "pulled", <<>>, {}))
  /\ pc' = "process"
  /\ UNCHANGED <<input_path, zip_names, zip_ok, cwd, original_dir, temp_dir,
                 tmpdirs, file_list, idx, cur, image_tile_map, fs,
                 invocations, inflight, archive, error>>

\* podman pull exits non-zero: RuntimeError leaves main.
PullFail ==
  /\ pc = "pull"
  /\ log' = Append(log, LogRec("ERROR", "pull_failed", <<>>, {}))
  /\ error' = "RuntimeError_pull"
  /\ pc' = "done"
  /\ UNCHANGED <<input_path, zip_names, zip_ok, cwd, original_dir, temp_dir,
                 tmpdirs, file_list, idx, cur, image_tile_map, fs,
                 invocations, inflight, archive>>

\* run_pyhist_podman(path) up to the blocking subprocess.run; the paths of
\* the model are absolute, so os.path.abspath leaves them as they are.
CallPyhist(path) ==
  /\ cur' = path
  /\ invocations' = Append(invocations, [image_path |-> path, mount |-> cwd])
  /\ inflight' = inflight + 1
  /\ log' = Append(log, LogRec("INFO", "running", path, {}))

\* process_files on a single image: mkdtemp, then the tool is started.
BeginSingle ==
  /\ pc = "process"
  /\ Branch(InputExt) = "single"
  /\ temp_dir' = ProcessDir
  /\ tmpdirs' = tmpdirs \cup {ProcessDir}
  /\ CallPyhist(input_path)
  /\ pc' = "invoke"
  /\ UNCHANGED <<input_path, zip_names, zip_ok, cwd, original_dir, file_list,
                 idx, image_tile_map, fs, archive, error>>

\* process_files on a readable ZIP: mkdtemp, extract_zip, chdir.
BeginZipOk ==
  /\ pc = "process"
  /\ Branch(InputExt) = "zip"
  /\ zip_ok
  /\ temp_dir' = ZipExtractDir
  /\ tmpdirs' = tmpdirs \cup {ProcessDir, ZipExtractDir}
  /\ file_list' = FileList(ZipExtractDir, zip_names)
  /\ log' = Append(log, LogRec("INFO", "extracted", ZipExtractDir, {}))
  /\ original_dir' = cwd
  /\ cwd' = ZipExtractDir
  /\ idx' = 1
  /\ pc' = "loop"
  /\ UNCHANGED <<input_path, zip_names, zip_ok, cur, image_tile_map, fs,
                 invocations, inflight, archive, error>>

\* process_files on an unreadable ZIP: extract_zip raises after its mkdtemp;
\* the outer finally removes temp_dir, which is still the process_ one.
BeginZipBad ==
  /\ pc = "process"
  /\ Branch(InputExt) = "zip"
  /\ ~zip_ok
  /\ temp_dir' = ProcessDir
  /\ tmpdirs' = FinallyTmpDirs(InputExt, ProcessDir,
                               tmpdirs \cup {ProcessDir, ZipExtractDir})
  /\ fs' = FinallyDisk(InputExt, ProcessDir, fs)
  /\ error' = "RuntimeError_zip"
  /\ pc' = "done"
  /\ UNCHANGED <<input_path, zip_names, zip_ok, cwd, original_dir, file_list,
                 idx, cur, image_tile_map, invocations, inflight, archive,
                 log>>

\* process_files on any other extension: ValueError.
BeginUnsupported ==
  /\ pc = "process"
  /\ Branch(InputExt) = "unsupported"
  /\ temp_dir' = ProcessDir
  /\ tmpdirs' = FinallyTmpDirs(InputExt, ProcessDir, tmpdirs \cup {ProcessDir})
  /\ fs' = FinallyDisk(InputExt, ProcessDir, fs)
  /\ error' = "ValueError"
  /\ pc' = "done"
  /\ UNCHANGED <<input_path, zip_names, zip_ok, cwd, original_dir, file_list,
                 idx, cur, image_tile_map, invocations, inflight, archive,
                 log>>

\* Loop body for an entry whose extension is not accepted.
LoopSkip ==
  /\ pc = "loop"
  /\ idx <= Len(file_list)
  /\ Skipped(file_list[idx])
  /\ log' = Append(log, LogRec("INFO", "skip", file_list[idx], {}))
  /\ idx' = idx + 1
  /\ UNCHANGED <<input_path, zip_names, zip_ok, pc, cwd, original_dir,
                 temp_dir, tmpdirs, file_list, cur, image_tile_map, fs,
                 invocations, inflight, archive, error>>

\* Loop body for an accepted entry: the tool is started.
LoopInvoke ==
  /\ pc = "loop"
  /\ idx <= Len(file_list)
  /\ ~Skipped(file_list[idx])
  /\ CallPyhist(file_list[idx])
  /\ pc' = "invoke"
  /\ UNCHANGED <<input_path, zip_names, zip_ok, cwd, original_dir, temp_dir,
                 tmpdirs, file_list, idx, image_tile_map, fs, archive, error>>

\* podman run exits non-zero: run_pyhist_podman logs and raises RuntimeError;
\* nothing in process_files or main handles it, the finally clauses run.
ToolFail ==
  /\ pc = "invoke"
  /\ inflight' = inflight - 1
  /\ log' = Append(log, LogRec("ERROR", "tool_failed", cur, {}))
  /\ cwd' = IF Branch(InputExt) = "zip" THEN FinallyChdir(original_dir, cwd)
            ELSE cwd
  /\ tmpdirs' = FinallyTmpDirs(InputExt, temp_dir, tmpdirs)
  /\ fs' = FinallyDisk(InputExt, temp_dir, fs)
  /\ error' = "RuntimeError_pyhist"
  /\ pc' = "done"
  /\ UNCHANGED <<input_path, zip_names, zip_ok, original_dir, temp_dir,
                 file_list, idx, cur, image_tile_map, invocations, archive>>

\* podman run exits zero, having left outcome o on disk.
ToolOk(o) ==
  /\ pc = "invoke"
  /\ inflight' = inflight - 1
  /\ fs' = ToolWrite(cwd, ImageName(cur), o, fs)
  /\ log' = Append(log, LogRec("INFO", "executed", cur, {}))
  /\ pc' = "locate"
  /\ UNCHANGED <<input_path, zip_names, zip_ok, cwd, original_dir, temp_dir,
                 tmpdirs, file_list, idx, cur, image_tile_map, invocations,
                 archive, error>>

\* Tile directory lookup after a successful invocation; a single image then
\* returns from process_files, a bundle entry goes on to the next entry.
Locate ==
  /\ pc = "locate"
  /\ LET image_name == ImageName(cur)
         tile_dir == TileDir(TileRoot, image_name)
     IN  /\ image_tile_map' = LocateMap(image_tile_map, image_name, tile_dir, fs)
         /\ log' = log \o LocateLog(tile_dir, fs)
  /\ IF Branch(InputExt) = "single"
     THEN /\ tmpdirs' = FinallyTmpDirs(InputExt, temp_dir, tmpdirs)
          /\ fs' = FinallyDisk(InputExt, temp_dir, fs)
          /\ idx' = idx
          /\ pc' = "aggregate"
     ELSE /\ idx' = idx + 1
          /\ pc' = "loop"
          /\ UNCHANGED <<tmpdirs, fs>>
  /\ UNCHANGED <<input_path, zip_names, zip_ok, cwd, original_dir, temp_dir,
                 file_list, cur, invocations, inflight, archive, error>>

\* The loop over file_list is exhausted: both finally clauses, then return.
LoopEnd ==
  /\ pc = "loop"
  /\ idx > Len(file_list)
  /\ cwd' = FinallyChdir(original_dir, cwd)
  /\ tmpdirs' = FinallyTmpDirs(InputExt, temp_dir, tmpdirs)
  /\ fs' = FinallyDisk(InputExt, temp_dir, fs)
  /\ pc' = "aggregate"
  /\ UNCHANGED <<input_path, zip_names, zip_ok, original_dir, temp_dir,
                 file_list, idx, cur, image_tile_map, invocations, inflight,
                 archive, log, error>>

\* ------------------------------------------------- create_output_zip, main
\* The (arcname, source file) pairs create_output_zip writes.
ArcName(image_name, file_path) == Join(image_name, Basename(file_path))

ZipEntries(map, disk) ==
  UNION { IF map[n] \in DOMAIN disk
          THEN { [arcname |-> ArcName(n, Join(map[n], f)),
                  src |-> Join(map[n], f)]
                 : f \in {g \in disk[map[n]] : EndsWith(Basename(g), EXT_png)} }
          ELSE {}
          : n \in DOMAIN map }

\* main's finally: rmtree(temp_dir) only for a single image.
MainFinallyTmpDirs(ext, dir, dirs) ==
  IF ext \in VALID_EXTENSIONS THEN dirs \ {dir} ELSE dirs

\* main after process_files returned, the archive being written in full.
AggregateOk ==
  /\ pc = "aggregate"
  /\ archive' = [exists |-> TRUE, entries |-> ZipEntries(image_tile_map, fs)]
  /\ fs' = IF InputExt \in VALID_EXTENSIONS
           THEN RmTree(Join(cwd, ImageName(input_path)), fs)
           ELSE fs
  /\ tmpdirs' = MainFinallyTmpDirs(InputExt, temp_dir, tmpdirs)
  /\ log' = log \o <<LogRec("INFO", "zip_created", <<>>, {}),
                     LogRec("INFO", "cleaned", temp_dir, {})>>
  /\ pc' = "done"
  /\ UNCHANGED <<input_path, zip_names, zip_ok, cwd, original_dir, temp_dir,
                 file_list, idx, cur, image_tile_map, invocations, inflight,
                 error>>

\* What a failed create_output_zip can leave at output_zip_path: the file as
\* it was (opening it failed) or a rewritten file with the entries written
\* before the failure.
PartialArchives(map, disk) ==
  {archive} \cup
  {[exists |-> TRUE, entries |-> w] : w \in SUBSET ZipEntries(map, disk)}

\* main after process_files returned, the archive not being writable:
\* create_output_zip raises leaving a, main's finally runs.
AggregateFail(a) ==
  /\ pc = "aggregate"
  /\ archive' = a
  /\ tmpdirs' = MainFinallyTmpDirs(InputExt, temp_dir, tmpdirs)
  /\ log' = Append(log, LogRec("INFO", "cleaned", temp_dir, {}))
  /\ error' = "OSError_archive"
  /\ pc' = "done"
  /\ UNCHANGED <<input_path, zip_names, zip_ok, cwd, original_dir, temp_dir,
                 file_list, idx, cur, image_tile_map, fs, invocations,
                 inflight>>

AggregateFailAny ==
  \E a \in PartialArchives(image_tile_map, fs) : AggregateFail(a)

ToolOkAny == \E o \in TileOutcomes : ToolOk(o)

Next ==
  \/ PullOk
  \/ PullFail
  \/ BeginSingle
  \/ BeginZipOk
  \/ BeginZipBad
  \/ BeginUnsupported
  \/ LoopSkip
  \/ LoopInvoke
  \/ ToolFail
  \/ ToolOkAny
  \/ Locate
  \/ LoopEnd
  \/ AggregateOk
  \/ AggregateFailAny

Spec == Init /\ [][Next]_vars

TypeOK ==
  /\ input_path \in InputPaths
  /\ pc \in {"pull", "process", "loop", "invoke", "locate", "aggregate", "done"}
  /\ cwd \in {Cwd0, ZipExtractDir}
  /\ tmpdirs \subseteq {ProcessDir, ZipExtractDir}
  /\ inflight \in 0..1
  /\ archive.exists \in BOOLEAN

\* ------------------------------------------------------------- claims
IsBundleRun == InputExt = EXT_zip /\ zip_ok

Accepted == {i \in 1..Len(zip_names) : ~Skipped(Join(ZipExtractDir, zip_names[i]))}

Rejected == {i \in 1..Len(zip_names) : Skipped(Join(ZipExtractDir, zip_names[i]))}

LogIdx(event) == {i \in 1..Len(log) : log[i].event = event}

\* Tile files process_files found in tile_dir (its "Found ... PNG files" records).
Discovered(tile_dir) ==
  UNION {log[i].files : i \in {j \in LogIdx("found") : log[j].subject = tile_dir}}

\* main ran to its end and wrote the archive.
Completed == pc = "done" /\ error = "none"

\* C1: every image recorded in image_tile_map has, in the archive main wrote,
\* exactly one entry per tile file found in its tile directory, under
\* <image_name>/ - for single images and for bundles.
C1_ArchiveHoldsDiscoveredTiles ==
  Completed =>
    \A n \in DOMAIN image_tile_map :
      \A f \in Discovered(image_tile_map[n]) :
        Cardinality({e \in archive.entries :
                       /\ e.src = Join(image_tile_map[n], f)
                       /\ StartsWith(e.arcname, n \o <<SEP>>)}) = 1

\* C2: a failed invocation for one image of a bundle is logged and contained:
\* the run does not end with that error and every accepted entry is invoked.
C2_ToolFailureContained ==
  (pc = "done" /\ IsBundleRun /\ LogIdx("tool_failed") # {}) =>
    /\ error = "none"
    /\ \A i \in Accepted :
         \E k \in 1..Len(invocations) : invocations[k].image_path = file_list[i]

\* C3: when main has terminated, on any path, no temporary directory is left.
C3_NoTempDirLeft == pc = "done" => tmpdirs = {}

\* C4: a bundle run that got to read its bundle issues exactly one invocation
\* per accepted entry, whatever the outcomes, and never has more than one
\* invocation in flight.
C4_OneInvocationPerAcceptedEntry ==
  /\ inflight <= 1
  /\ (pc = "done" /\ IsBundleRun /\ error # "RuntimeError_pull") =>
       /\ Len(invocations) = Cardinality(Accepted)
       /\ \A i \in Accepted :
            Cardinality({k \in 1..Len(invocations) :
                           invocations[k].image_path = file_list[i]}) = 1

\* C5: a rejected entry is never invoked and never logged above INFO, and a
\* bundle run that got to read its bundle ends with one invocation per
\* accepted entry, one skip record per rejected entry and at most as many
\* logical names in the archive as accepted entries.
C5_RejectedEntriesOnlySkipped ==
  /\ \A i \in Rejected :
       /\ \A k \in 1..Len(invocations) :
            invocations[k].image_path # Join(ZipExtractDir, zip_names[i])
       /\ \A k \in 1..Len(log) :
            log[k].subject = Join(ZipExtractDir, zip_names[i]) =>
              log[k].level = "INFO" /\ log[k].event = "skip"
  /\ (pc = "done" /\ IsBundleRun /\ error # "RuntimeError_pull") =>
       /\ Len(invocations) = Cardinality(Accepted)
       /\ Cardinality(LogIdx("skip")) = Cardinality(Rejected)
       /\ Cardinality(DOMAIN image_tile_map) <= Cardinality(Accepted)

\* The tile directory the pending lookup is about holds no PNG tile.
NoTilesAtLookup ==
  /\ pc = "locate"
  /\ LET tile_dir == TileDir(TileRoot, ImageName(cur))
     IN  tile_dir \notin DOMAIN fs \/ TileFiles(fs[tile_dir]) = {}

\* C6: a lookup that finds no tile directory or no PNG in it leaves
\* image_tile_map as it is, logs a warning and no error, raises nothing and
\* goes on (to the next entry of a bundle, to aggregation for a single
\* image); the archive only has entries from directories in image_tile_map.
C6_NoTilesIsNonFatal ==
  /\ [][NoTilesAtLookup =>
          /\ image_tile_map' = image_tile_map
          /\ error' = "none"
          /\ Len(log') > Len(log)
          /\ log'[Len(log')].level = "WARNING"
          /\ \A k \in (Len(log) + 1)..Len(log') : log'[k].level # "ERROR"
          /\ IF InputExt # EXT_zip
             THEN pc' = "aggregate"
             ELSE pc' = "loop" /\ idx' = idx + 1]_vars
  /\ [](\A e \in archive.entries :
          \E n \in DOMAIN image_tile_map : Inside(image_tile_map[n], e.src))

\* C6 witness: a warning of the lookup is followed by a further invocation.
C6_Witness ==
  \E i \in 1..Len(log) : \E j \in 1..Len(log) :
    /\ i < j
    /\ log[i].level = "WARNING"
    /\ log[j].event = "running"

\* C7: all entry names of the archive are pairwise distinct, and every entry
\* under <image_name>/ comes from the tile directory recorded for that name.
C7_EntryNamesDistinct ==
  /\ \A e1 \in archive.entries : \A e2 \in archive.entries :
       e1.arcname = e2.arcname => e1 = e2
  /\ \A e \in archive.entries : \A n \in DOMAIN image_tile_map :
       StartsWith(e.arcname, n \o <<SEP>>) => Inside(image_tile_map[n], e.src)

Digits == {"0", "1", "2", "3", "4", "5", "6", "7", "8", "9"}

\* The last run of digits of a file name, "0000" if it has none.
TileIndex(name) ==
  LET ds == {i \in 1..Len(name) : name[i] \in Digits}
  IN  IF ds = {} THEN <<"0", "0", "0", "0">>
      ELSE LET e == CHOOSE i \in ds : \A j \in ds : j <= i
               b == CHOOSE i \in 1..e :
                      /\ \A j \in i..e : name[j] \in Digits
                      /\ (i = 1 \/ name[i - 1] \notin Digits)
           IN  SubSeq(name, b, e)

\* C8: every archive entry is named <name>/<name>_<tile_index>.png.
C8_EntriesRenamed ==
  \A e \in archive.entries :
    \E n \in DOMAIN image_tile_map :
      e.arcname = Join(n, n \o <<"_">> \o TileIndex(Basename(e.src)) \o EXT_png)

SoleInputDefective ==
  /\ InputExt \notin VALID_EXTENSIONS
  /\ (InputExt # EXT_zip \/ ~zip_ok)

\* C9: with an unsupported or unreadable sole input no invocation is ever made,
\* the archive is never touched and a run that got past the pull ends with
\* the input error; skipping a bundle entry raises nothing, and an input
\* error only ever comes from the sole input.
C9_SoleInputErrorFatal ==
  /\ [](SoleInputDefective =>
          /\ invocations = <<>>
          /\ archive = [exists |-> FALSE, entries |-> {}]
          /\ (pc = "done" /\ error # "RuntimeError_pull" =>
                error = (IF zip_ok THEN "ValueError" ELSE "RuntimeError_zip")))
  /\ [](error \in {"ValueError", "RuntimeError_zip"} => SoleInputDefective)
  /\ [][(pc = "loop" /\ idx <= Len(file_list) /\ Skipped(file_list[idx])) =>
          error' = "none" /\ pc' = "loop" /\ idx' = idx + 1]_vars

\* C9 witness: a run on an unsupported sole input has ended.
C9_Witness ==
  /\ pc = "done"
  /\ InputExt \notin VALID_EXTENSIONS \cup {EXT_zip}
  /\ error = "ValueError"
  /\ invocations = <<>>

\* C10: outside process_files the working directory is the one at entry;
\* inside, it is the extracted workspace for a bundle and unchanged otherwise.
C10_CwdRestored ==
  /\ pc \in {"pull", "process", "aggregate", "done"} => cwd = Cwd0
  /\ pc \in {"loop", "invoke", "locate"} =>
       cwd = (IF InputExt = EXT_zip THEN ZipExtractDir ELSE Cwd0)

\* C10 witness: an invocation raised in the middle of a bundle.
C10_Witness ==
  /\ pc = "done"
  /\ error = "RuntimeError_pyhist"
  /\ IsBundleRun
  /\ Len(invocations) >= 2
  /\ Len(invocations) < Cardinality(Accepted)

====
